---- MODULE Spec2Model ----
(***************************************************************************)
(* Model of the OCR service in src/main.py (the live code, lines 290-504).  *)
(* One request is processed by one of the two endpoints, /ocrmypdf or       *)
(* /ocr-tesseract.  Text is a sequence of character tokens: "a" and "b"     *)
(* are letters, "sp", "nl" and "tab" are the whitespace characters space,   *)
(* newline and tab.  The external collaborators (pdfplumber, ocrmypdf,      *)
(* pytesseract, fitz, PIL, the file system) may raise; each such failure is *)
(* a nondeterministic choice in the action that calls the collaborator.     *)
(***************************************************************************)
EXTENDS Integers, Sequences, FiniteSets, TLC

\* Largest number of uploaded files in one request.
MaxFiles == 2

VARIABLES
    endpoint,       \* "ocrmypdf" (ocr_endpoint) or "tesseract" (ocr_tesseract_only)
    languages,      \* the `languages` query parameter of the request
    twinLanguages,  \* the `languages` parameter of a twin request with the same files
    files,          \* the uploaded files, in the order supplied
    idx,            \* get_file_text_*: index of the file of the current iteration
    pc,             \* position in the code
    proc,           \* which process_* function is running: "pdf", "image", "none"
    text,           \* get_file_text_*: the list `text`
    cur,            \* process_*: the local `text` / the value about to be returned
    page,           \* process_pdf_tesseract: page_num (1-based here)
    exc,            \* exception pending while a finally block runs, or "none"
    todo,           \* finally block: paths the cleanup loop has still to visit
    disk,           \* temporary files present on disk
    attempts,       \* os.remove calls made, per path
    calls,          \* OCR engine invocations made, in order
    twinCalls,      \* the invocations the twin request makes at the same points
    nativeTried,    \* files on which native text-layer extraction was attempted
    nativeFound,    \* files whose native extraction yielded non-blank text
    engineFailed,   \* files on which ocrmypdf.ocr raised
    dispatched,     \* files the get_file_text_* loop has dispatched on
    fragments,      \* text fragments produced (page, paragraph, image), in order
    response        \* the HTTP response, once the request has ended

vars == <<endpoint, languages, twinLanguages, files, idx, pc, proc, text, cur,
          page, exc, todo, disk, attempts, calls, twinCalls, nativeTried,
          nativeFound, engineFailed, dispatched, fragments, response>>

-----------------------------------------------------------------------------
(* Text *)

Whitespace == {"sp", "nl", "tab"}

\* str.strip() == "" : the text has no non-whitespace character
IsBlank(s) == \A i \in 1..Len(s) : s[i] \in Whitespace

\* s.replace('\n', ' ')
ReplaceNl(s) == [i \in 1..Len(s) |-> IF s[i] = "nl" THEN "sp" ELSE s[i]]

\* s.split(): the maximal runs of non-whitespace characters, in order
RECURSIVE SplitFrom(_, _, _)
SplitFrom(s, i, word) ==
    IF i > Len(s)
    THEN IF word = <<>> THEN <<>> ELSE <<word>>
    ELSE IF s[i] \in Whitespace
         THEN IF word = <<>>
              THEN SplitFrom(s, i + 1, <<>>)
              ELSE <<word>> \o SplitFrom(s, i + 1, <<>>)
         ELSE SplitFrom(s, i + 1, Append(word, s[i]))

Split(s) == SplitFrom(s, 1, <<>>)

\* " ".join(parts)
RECURSIVE JoinSp(_)
JoinSp(parts) ==
    IF parts = <<>> THEN <<>>
    ELSE IF Len(parts) = 1 THEN parts[1]
    ELSE parts[1] \o <<"sp">> \o JoinSp(Tail(parts))

\* a bug: the newline replacement without the split and re-join
CleanTextNoSplit(s) == ReplaceNl(s)

\* ' '.join(extracted_text.replace('\n', ' ').split())
CleanText(s) == JoinSp(Split(ReplaceNl(s)))

-----------------------------------------------------------------------------
(* Files *)

\* os.path.splitext(file.filename)[1].lower(); a file is named by the
\* extension as written in its name
Lower(ext) ==
    CASE ext = ".PDF" -> ".pdf"
      [] ext = ".JPG" -> ".jpg"
      [] OTHER -> ext

\* a bug: an extension the image branch should not accept
ImageExtsWithXyz == {".png", ".jpg", ".jpeg", ".tiff", ".bmp", ".xyz"}

ImageExts == {".png", ".jpg", ".jpeg", ".tiff", ".bmp"}

Pg(native, scan) == [native |-> native, scan |-> scan]

EngOnly == [detected |-> <<"eng">>, scores |-> [eng |-> 95, hin |-> 0, pan |-> 0]]
EngPan  == [detected |-> <<"eng", "pan">>, scores |-> [eng |-> 70, hin |-> 0, pan |-> 40]]

\* The uploads a request is built from.  native: what the text layer (or the
\* paragraph) holds; scan: what OCR reads from the rendered page; ok: FALSE
\* for a corrupt file no library can open; inferred: the languages and
\* scores language inference yields for the content.
FileSet ==
    { [ext |-> ".pdf", ok |-> TRUE, inferred |-> EngOnly,
       pages |-> << Pg(<<"a", "nl", "b">>, <<"a", "sp", "b">>),
                    Pg(<<"sp", "b">>, <<"b">>) >>],
      [ext |-> ".PDF", ok |-> TRUE, inferred |-> EngPan,
       pages |-> << Pg(<<>>, <<"a", "nl">>),
                    Pg(<<"sp">>, <<"b", "sp", "sp", "a">>) >>],
      [ext |-> ".pdf", ok |-> FALSE, inferred |-> EngOnly,
       pages |-> << >>],
      [ext |-> ".docx", ok |-> TRUE, inferred |-> EngOnly,
       pages |-> << Pg(<<"a">>, <<>>), Pg(<<"sp">>, <<>>),
                    Pg(<<"b", "nl", "a">>, <<>>) >>],
      [ext |-> ".png", ok |-> TRUE, inferred |-> EngOnly,
       pages |-> << Pg(<<>>, <<"sp", "a", "tab", "b", "nl">>) >>],
      [ext |-> ".JPG", ok |-> TRUE, inferred |-> EngPan,
       pages |-> << Pg(<<>>, <<"b">>) >>],
      [ext |-> ".xyz", ok |-> TRUE, inferred |-> EngOnly,
       pages |-> << Pg(<<"a">>, <<"a">>) >>],
      [ext |-> "", ok |-> TRUE, inferred |-> EngOnly,
       pages |-> << Pg(<<"b">>, <<"b">>) >>] }

FileSeqs == UNION { [1..n -> FileSet] : n \in 1..MaxFiles }

Hints == {"pan+eng", "eng"}

Kinds == {"input", "pdf", "output"}

Paths == (1..MaxFiles) \X Kinds

NoResponse ==
    [kind |-> "none", status |-> 0, file |-> 0, filename |-> "", cause |-> "",
     inner |-> 0, ext |-> "", hasText |-> FALSE, text |-> <<>>]

\* str(e) for the exception e caught at lines 460 and 477, as it appears in
\* the detail "Error processing <filename>: <str(e)>" of the 400 response.
\* inner/ext: the status and the extension the message of e carries, if any.
ErrorResponse(i, cause, inner, ext) ==
    [kind |-> "error", status |-> 400, file |-> i, filename |-> files[i].ext,
     cause |-> cause, inner |-> inner, ext |-> ext, hasText |-> FALSE,
     text |-> <<>>]

OcrCall(engine, i, p, lang) ==
    [engine |-> engine, file |-> i, page |-> p, lang |-> lang]

Natives(f) == [p \in 1..Len(f.pages) |-> f.pages[p].native]
Scans(f)   == [p \in 1..Len(f.pages) |-> f.pages[p].scan]

\* para.text for para in doc.paragraphs if para.text.strip()
NonBlank(parts) == SelectSeq(parts, LAMBDA t : ~IsBlank(t))

request == <<endpoint, languages, twinLanguages, files>>
loop    == <<idx, text>>
fs      == <<disk, attempts>>
engines == <<calls, twinCalls>>
native  == <<nativeTried, nativeFound>>

-----------------------------------------------------------------------------
(* The request *)

Init ==
    /\ endpoint \in {"ocrmypdf", "tesseract"}
    /\ languages \in Hints
    /\ twinLanguages \in Hints \ {languages}
    /\ files \in FileSeqs
    /\ idx = 1
    /\ pc = "loop"
    /\ proc = "none"
    /\ text = <<>>
    /\ cur = <<>>
    /\ page = 0
    /\ exc = "none"
    /\ todo = <<>>
    /\ disk = {}
    /\ attempts = [p \in Paths |-> 0]
    /\ calls = <<>>
    /\ twinCalls = <<>>
    /\ nativeTried = {}
    /\ nativeFound = {}
    /\ engineFailed = {}
    /\ dispatched = {}
    /\ fragments = <<>>
    /\ response = NoResponse

\* the function returns t to get_file_text_*, which appends it (text.append)
ReturnText(t) ==
    /\ text' = Append(text, t)
    /\ idx' = idx + 1
    /\ pc' = "loop"
    /\ proc' = "none"

\* an exception leaves the process_* function: caught at line 460 / 477 and
\* raised again as HTTPException(400), which ends the request
RaiseToHandler(cause) ==
    /\ response' = ErrorResponse(idx, cause, 0, "")
    /\ pc' = "done"
    /\ proc' = "none"
    /\ UNCHANGED <<idx, text>>

\* get_file_text_ocrmypdf / get_file_text_tesseract: the if/elif chain on ext
Dispatch ==
    /\ pc = "loop"
    /\ idx <= Len(files)
    /\ LET ext == Lower(files[idx].ext) IN
       /\ ext \in {".pdf", ".docx"} \cup ImageExts
       /\ pc' = CASE ext = ".pdf" /\ endpoint = "ocrmypdf" -> "pdf_native"
                  [] ext = ".pdf" /\ endpoint = "tesseract" -> "tess_open"
                  [] ext = ".docx" -> "docx"
                  [] ext \in ImageExts /\ endpoint = "ocrmypdf" -> "write"
                  [] OTHER -> "img_tess"
       /\ proc' = CASE ext = ".pdf" -> "pdf"
                    [] ext \in ImageExts -> "image"
                    [] OTHER -> "docx"
    /\ dispatched' = dispatched \cup {idx}
    /\ cur' = <<>>
    /\ UNCHANGED <<request, loop, page, exc, todo, fs, engines, native, engineFailed,
                   fragments, response>>

\* the else branch: HTTPException(400, "Unsupported file type: <ext>"), caught
\* by the except clause of the same iteration and wrapped in a second 400
\* whose detail is "Error processing <filename>: <str(e)>".  str(e) of an
\* HTTPException is "<status>: <detail>" with a recent Starlette and empty
\* with an older one; the file name is in the detail either way.
RaiseUnsupported ==
    /\ pc = "loop"
    /\ idx <= Len(files)
    /\ LET ext == Lower(files[idx].ext) IN
       /\ ext \notin {".pdf", ".docx"} \cup ImageExts
       /\ \/ response' = ErrorResponse(idx, "Unsupported file type", 400, ext)
          \/ response' = ErrorResponse(idx, "", 0, "")
    /\ dispatched' = dispatched \cup {idx}
    /\ pc' = "done"
    /\ UNCHANGED <<request, loop, proc, cur, page, exc, todo, fs, engines,
                   native, engineFailed, fragments>>

\* the loop is over: " ".join(text), then the endpoint cleans the text
Respond ==
    /\ pc = "loop"
    /\ idx > Len(files)
    /\ response' = [NoResponse EXCEPT !.kind = "ok", !.status = 200,
                                      !.hasText = TRUE,
                                      !.text = CleanText(JoinSp(text))]
    /\ pc' = "done"
    /\ UNCHANGED <<request, loop, proc, cur, page, exc, todo, fs, engines,
                   native, engineFailed, dispatched, fragments>>

-----------------------------------------------------------------------------
(* process_docx *)

ProcessDocx ==
    /\ pc = "docx"
    /\ LET f == files[idx] IN
       \/ /\ f.ok
          /\ ReturnText(JoinSp(NonBlank(Natives(f))))
          /\ fragments' = fragments \o Natives(f)
          /\ UNCHANGED response
       \/ /\ RaiseToHandler("docx_open_failed")
          /\ UNCHANGED fragments
    /\ UNCHANGED <<request, cur, page, exc, todo, fs, engines, native, engineFailed,
                   dispatched>>

-----------------------------------------------------------------------------
(* process_pdf_ocrmypdf and process_image_ocrmypdf *)

\* lines 344-350: pdfplumber reads the text layer of every page; no text, or
\* any exception, sends the function into the except branch (the OCR path)
NativeExtract ==
    /\ pc = "pdf_native"
    /\ nativeTried' = nativeTried \cup {idx}
    /\ LET f == files[idx]
           t == JoinSp(Natives(f)) IN
       \/ /\ f.ok
          /\ ~IsBlank(t)
          /\ ReturnText(t)
          /\ fragments' = fragments \o Natives(f)
          /\ cur' = t
          /\ nativeFound' = nativeFound \cup {idx}
       \/ /\ f.ok => IsBlank(t)
          /\ pc' = "write"
          /\ cur' = IF f.ok THEN t ELSE <<>>
          /\ UNCHANGED <<loop, proc, fragments, nativeFound>>
       \/ /\ f.ok                       \* extract_text() raises on some page
          /\ pc' = "write"
          /\ cur' = <<>>
          /\ UNCHANGED <<loop, proc, fragments, nativeFound>>
    /\ UNCHANGED <<request, page, exc, todo, fs, engines, engineFailed,
                   dispatched, response>>

\* lines 352-354 and 406-408: NamedTemporaryFile(delete=False) creates the
\* file, then the upload is written to it.  This is before the try, so an
\* exception raised by the write leaves the function at once.
WriteTemp ==
    /\ pc = "write"
    /\ \/ /\ disk' = disk \cup {<<idx, "input">>}
          /\ pc' = IF proc = "pdf" THEN "ocr" ELSE "convert"
          /\ UNCHANGED <<loop, proc, response>>
       \/ /\ disk' = disk \cup {<<idx, "input">>}   \* the write raises
          /\ RaiseToHandler("temp_write_failed")
       \/ /\ UNCHANGED disk                         \* the creation raises
          /\ RaiseToHandler("temp_create_failed")
    /\ UNCHANGED <<request, cur, page, exc, todo, attempts, engines,
                   native, engineFailed, dispatched, fragments>>

CleanupPaths ==
    IF proc = "pdf"
    THEN << <<idx, "input">>, <<idx, "output">> >>
    ELSE << <<idx, "input">>, <<idx, "pdf">>, <<idx, "output">> >>

\* an exception inside the try: the finally block runs, then it propagates
RaiseInTry(cause) ==
    /\ exc' = cause
    /\ todo' = CleanupPaths
    /\ pc' = "cleanup"

\* lines 414-417: the image is opened, converted and saved as a one-page PDF
ConvertImage ==
    /\ pc = "convert"
    /\ \/ /\ disk' = disk \cup {<<idx, "pdf">>}
          /\ pc' = "ocr"
          /\ UNCHANGED <<exc, todo>>
       \/ /\ \E partial \in BOOLEAN :
                disk' = IF partial THEN disk \cup {<<idx, "pdf">>} ELSE disk
          /\ RaiseInTry("image_convert_failed")
    /\ UNCHANGED <<request, loop, proc, cur, page, attempts, engines,
                   native, engineFailed, dispatched, fragments, response>>

\* lines 358-364 and 419-425: ocrmypdf.ocr(..., language=languages, ...)
RunOcrmypdf ==
    /\ pc = "ocr"
    /\ calls' = Append(calls, OcrCall("ocrmypdf", idx, 0, languages))
    /\ twinCalls' = Append(twinCalls, OcrCall("ocrmypdf", idx, 0, twinLanguages))
    /\ \/ /\ files[idx].ok
          /\ disk' = disk \cup {<<idx, "output">>}
          /\ pc' = "read"
          /\ UNCHANGED <<exc, todo, engineFailed>>
       \/ /\ \E partial \in BOOLEAN :
                disk' = IF partial THEN disk \cup {<<idx, "output">>} ELSE disk
          /\ RaiseInTry("ocrmypdf_failed")
          /\ engineFailed' = engineFailed \cup {idx}
    /\ UNCHANGED <<request, loop, proc, cur, page, attempts, native,
                   dispatched, fragments, response>>

\* lines 365-366 and 427-428: the text layer of the OCR output is read; the
\* finally block runs before the function returns
ReadOutput ==
    /\ pc = "read"
    /\ \/ /\ cur' = JoinSp(Scans(files[idx]))
          /\ todo' = CleanupPaths
          /\ pc' = "cleanup"
          /\ UNCHANGED exc
       \/ /\ RaiseInTry("output_read_failed")
          /\ UNCHANGED cur
    /\ UNCHANGED <<request, loop, proc, page, fs, engines, native, engineFailed,
                   dispatched, fragments, response>>

\* lines 368-373 and 430-435: one iteration of the cleanup loop.  os.remove
\* is called once for a path that exists; an exception it raises is passed.
CleanupStep ==
    /\ pc = "cleanup"
    /\ todo # <<>>
    /\ LET path == Head(todo) IN
       IF path \in disk
       THEN /\ attempts' = [attempts EXCEPT ![path] = @ + 1]
            /\ \/ disk' = disk \ {path}
               \/ UNCHANGED disk
       ELSE UNCHANGED <<disk, attempts>>
    /\ todo' = Tail(todo)
    /\ UNCHANGED <<request, loop, pc, proc, cur, page, exc, engines,
                   native, engineFailed, dispatched, fragments, response>>

\* the finally block is over: the pending exception propagates, or the
\* function returns its text
FinishCleanup ==
    /\ pc = "cleanup"
    /\ todo = <<>>
    /\ IF exc = "none"
       THEN /\ ReturnText(cur)
            /\ fragments' = fragments \o Scans(files[idx])
            /\ UNCHANGED response
       ELSE /\ RaiseToHandler(exc)
            /\ UNCHANGED fragments
    /\ exc' = "none"
    /\ UNCHANGED <<request, cur, page, todo, fs, engines, native, engineFailed,
                   dispatched>>

-----------------------------------------------------------------------------
(* process_pdf_tesseract and process_image_tesseract *)

\* lines 377-380: fitz.open on the bytes of the upload
TessOpen ==
    /\ pc = "tess_open"
    /\ IF files[idx].ok
       THEN /\ pc' = "tess_page"
            /\ page' = 1
            /\ cur' = <<>>
            /\ UNCHANGED <<loop, proc, response>>
       ELSE /\ RaiseToHandler("pdf_open_failed")
            /\ UNCHANGED <<page, cur>>
    /\ UNCHANGED <<request, exc, todo, fs, engines, native, engineFailed, dispatched,
                   fragments>>

\* lines 383-394: one page is rendered and read by pytesseract
TessPage ==
    /\ pc = "tess_page"
    /\ page <= Len(files[idx].pages)
    /\ calls' = Append(calls, OcrCall("tesseract", idx, page, languages))
    /\ twinCalls' = Append(twinCalls, OcrCall("tesseract", idx, page, twinLanguages))
    /\ \/ /\ cur' = cur \o files[idx].pages[page].scan \o <<"sp">>
          /\ fragments' = Append(fragments, files[idx].pages[page].scan)
          /\ page' = page + 1
          /\ UNCHANGED <<loop, pc, proc, response>>
       \/ /\ RaiseToHandler("page_ocr_failed")
          /\ UNCHANGED <<cur, fragments, page>>
    /\ UNCHANGED <<request, exc, todo, fs, native, engineFailed, dispatched>>

\* lines 383-387: load_page / get_pixmap / Image.open raises for the page
TessRasterizeFails ==
    /\ pc = "tess_page"
    /\ page <= Len(files[idx].pages)
    /\ RaiseToHandler("page_rasterize_failed")
    /\ UNCHANGED <<request, cur, page, exc, todo, fs, engines, native, engineFailed,
                   dispatched, fragments>>

\* lines 396-397: the page loop is over
TessClose ==
    /\ pc = "tess_page"
    /\ page > Len(files[idx].pages)
    /\ ReturnText(cur)
    /\ UNCHANGED <<request, cur, page, exc, todo, fs, engines, native, engineFailed,
                   dispatched, fragments, response>>

\* lines 437-445
ImageTesseract ==
    /\ pc = "img_tess"
    /\ \/ /\ RaiseToHandler("image_open_failed")
          /\ UNCHANGED <<engines, fragments>>
       \/ /\ calls' = Append(calls, OcrCall("tesseract", idx, 0, languages))
          /\ twinCalls' = Append(twinCalls, OcrCall("tesseract", idx, 0, twinLanguages))
          /\ \/ /\ ReturnText(files[idx].pages[1].scan)
                /\ fragments' = Append(fragments, files[idx].pages[1].scan)
                /\ UNCHANGED response
             \/ /\ RaiseToHandler("image_ocr_failed")
                /\ UNCHANGED fragments
    /\ UNCHANGED <<request, cur, page, exc, todo, fs, native, engineFailed, dispatched>>

-----------------------------------------------------------------------------

Next ==
    \/ Dispatch
    \/ RaiseUnsupported
    \/ Respond
    \/ ProcessDocx
    \/ NativeExtract
    \/ WriteTemp
    \/ ConvertImage
    \/ RunOcrmypdf
    \/ ReadOutput
    \/ CleanupStep
    \/ FinishCleanup
    \/ TessOpen
    \/ TessPage
    \/ TessRasterizeFails
    \/ TessClose
    \/ ImageTesseract

Spec == Init /\ [][Next]_vars

TypeOK ==
    /\ pc \in {"loop", "done", "docx", "pdf_native", "write", "convert", "ocr",
               "read", "cleanup", "tess_open", "tess_page", "img_tess"}
    /\ idx \in 1..(Len(files) + 1)
    /\ disk \subseteq Paths
    /\ Len(calls) = Len(twinCalls)

-----------------------------------------------------------------------------
(* Properties *)

Done == pc = "done"

\* the process_* function of the current file has returned or raised
BetweenFiles == pc \in {"loop", "done"}

IsPdf(i) == Lower(files[i].ext) = ".pdf"

DocumentedExts == {".pdf", ".docx", ".png", ".jpg", ".jpeg", ".tiff", ".bmp"}

Unsupported(i) == Lower(files[i].ext) \notin DocumentedExts

\* C1: when the loop reaches a file whose extension is none of .pdf, .docx,
\* .png, .jpg, .jpeg, .tiff, .bmp, the request ends there in a 400 error
\* whose message names the file, extension included (and the extension by
\* itself when the message of the inner exception is kept), no later file
\* is dispatched, no OCR runs for it, and no text is returned, whatever the
\* earlier files produced; a request holding such a file never returns
\* text.  Both endpoints.
C1_UnsupportedAborts ==
    /\ \A i \in dispatched :
          Unsupported(i) =>
             /\ Done
             /\ response.kind = "error"
             /\ response.file = i
             /\ response.status = 400
             /\ Lower(response.filename) = Lower(files[i].ext)
             /\ response.cause # "" =>
                   /\ response.cause = "Unsupported file type"
                   /\ response.ext = Lower(files[i].ext)
             /\ ~response.hasText
             /\ \A j \in dispatched : j <= i
             /\ \A k \in 1..Len(calls) : calls[k].file < i
    /\ (\E i \in 1..Len(files) : Unsupported(i)) => response.kind # "ok"

\* C1 witness: a supported first file was processed and its text collected,
\* then the second, unsupported file ended the request in an error
C1_Witness ==
    /\ Len(files) = 2
    /\ 2 \in dispatched
    /\ Unsupported(2)
    /\ Len(text) = 1
    /\ ~IsBlank(text[1])
    /\ response.kind = "error"

\* C2: every OCR engine invocation on a PDF comes after native text-layer
\* extraction was attempted on that PDF and yielded no text.
C2_NativeBeforeOcr ==
    \A k \in 1..Len(calls) :
       IsPdf(calls[k].file) =>
          /\ calls[k].file \in nativeTried
          /\ calls[k].file \notin nativeFound

\* C3: once the processing of a file has returned or raised, no temporary
\* file created for it is on disk.
C3_NoArtifactRemains == BetweenFiles => disk = {}

\* C4: a file on which the searchable-PDF engine raised is then read by the
\* raw engine, and the request does not end in an error for that failure.
C4_EngineFailureRecovered ==
    BetweenFiles =>
       \A i \in engineFailed :
          /\ \E k \in 1..Len(calls) :
                calls[k].file = i /\ calls[k].engine = "tesseract"
          /\ ~(response.kind = "error" /\ response.file = i)

\* C5: a failure of one page of the per-page OCR loop does not end the
\* request in an error.
C5_PageFailureAbsorbed ==
    response.kind = "error" =>
       response.cause \notin {"page_ocr_failed", "page_rasterize_failed"}

\* C6: a request that reached a corrupt PDF ends in an error for that file
\* with status 500.
C6_CorruptPdfIs500 ==
    \A i \in dispatched :
       (Done /\ IsPdf(i) /\ ~files[i].ok) =>
          /\ response.kind = "error"
          /\ response.file = i
          /\ response.status = 500

\* C7: two requests with the same files that differ only in the language
\* hint make the same sequence of OCR engine invocations, language argument
\* included.
C7_HintDoesNotReachEngines == calls = twinCalls

\* the engine selection policy: single-language when eng is the only
\* detected language, or eng scores above 60 and every other language
\* scores below 10
Select(detected, scores) ==
    IF \/ detected = <<"eng">>
       \/ scores.eng > 60 /\ scores.hin < 10 /\ scores.pan < 10
    THEN "single" ELSE "multi"

\* C8: every OCR invocation uses the engine the selection policy gives for
\* the languages inferred for the content: the searchable-PDF engine for
\* "single", the raw engine for "multi".
C8_EngineChosenFromLanguages ==
    \A k \in 1..Len(calls) :
       LET inf == files[calls[k].file].inferred IN
       calls[k].engine = IF Select(inf.detected, inf.scores) = "single"
                         THEN "ocrmypdf" ELSE "tesseract"

\* the words of a text, by position: a word starts at a non-whitespace
\* character that is first or follows whitespace, and runs to the last
\* character before the next whitespace
WordStarts(s) ==
    {i \in 1..Len(s) : s[i] \notin Whitespace /\ (i = 1 \/ s[i - 1] \in Whitespace)}

WordEnd(s, i) ==
    CHOOSE j \in i..Len(s) :
       /\ \A k \in i..j : s[k] \notin Whitespace
       /\ j = Len(s) \/ s[j + 1] \in Whitespace

NthOf(S, n) == CHOOSE x \in S : Cardinality({y \in S : y < x}) = n - 1

WordsOf(s) ==
    [n \in 1..Cardinality(WordStarts(s)) |->
        SubSeq(s, NthOf(WordStarts(s), n), WordEnd(s, NthOf(WordStarts(s), n)))]

RECURSIVE WordsOfAll(_)
WordsOfAll(frags) ==
    IF frags = <<>> THEN <<>>
    ELSE WordsOf(Head(frags)) \o WordsOfAll(Tail(frags))

\* C9: the returned text holds the words of every produced fragment, in
\* source order, none dropped, repeated or moved, separated by exactly one
\* space: no newline or tab, no two adjacent spaces, no space at either end.
C9_TextIsOrderedCollapsedConcatenation ==
    (Done /\ response.kind = "ok") =>
       LET t == response.text IN
       /\ WordsOf(t) = WordsOfAll(fragments)
       /\ \A i \in 1..Len(t) : t[i] \notin {"nl", "tab"}
       /\ \A i \in 1..(Len(t) - 1) : ~(t[i] = "sp" /\ t[i + 1] = "sp")
       /\ t # <<>> => (t[1] # "sp" /\ t[Len(t)] # "sp")

\* C9 witness: a successful request over two files whose fragments hold a
\* newline, a run of spaces and a blank fragment
C9_Witness ==
    /\ Done
    /\ response.kind = "ok"
    /\ Len(files) = 2
    /\ Len(fragments) >= 3
    /\ \E n \in 1..Len(fragments) : \E i \in 1..Len(fragments[n]) :
          fragments[n][i] = "nl"
    /\ \E n \in 1..Len(fragments) : \E i \in 1..(Len(fragments[n]) - 1) :
          fragments[n][i] = "sp" /\ fragments[n][i + 1] = "sp"
    /\ \E n \in 1..Len(fragments) : IsBlank(fragments[n])
    /\ Len(WordsOf(response.text)) >= 4

\* C10: a temporary file whose deletion was attempted and that is still on
\* disk when the function has returned or raised has had three attempts.
C10_DeleteRetriedThreeTimes ==
    BetweenFiles =>
       \A p \in disk : attempts[p] >= 1 => attempts[p] = 3

====
